---- MODULE Spec2Model ----
(***************************************************************************)
(* Task-execution control loops of the android-vision-agent repository.    *)
(*                                                                         *)
(*   SA  SimpleAndroidAgent.run_task          (src/android_ai_agent.py)    *)
(*   VS  AndroidVisionAgent.run_task and run_vision_guided_stage           *)
(*                                   (src/simple_android_vision_agent.py)  *)
(*   XA  AndroidVisionAgent.run_task          (src/android_vision_agent.py)*)
(*                                                                         *)
(* Each agent has its own specification (SpecSA, SpecVS, SpecXA) over the  *)
(* variables of that agent; the other agents' variables stay at their      *)
(* initial value.  The collaborators (screen capture, LLM analysis and     *)
(* planning, adb / uiautomator2 execution) are inputs: every action draws  *)
(* their answer from a small set with \E.                                  *)
(***************************************************************************)
EXTENDS Integers, Sequences, FiniteSets, TLC

(***************************************************************************)
(* Program constants of SimpleAndroidAgent.run_task.                       *)
(***************************************************************************)
max_steps == 20

RepetitionThreshold == 3

HistoryLimit == 3

(***************************************************************************)
(* Text is a sequence of characters over a small alphabet, so that         *)
(* str.lower() and str.strip() are computed and not assumed.               *)
(***************************************************************************)
Lower(c) == IF c = "A" THEN "a" ELSE IF c = "B" THEN "b" ELSE c

LowerText(s) == [i \in 1..Len(s) |-> Lower(s[i])]

RECURSIVE LStrip(_)
LStrip(s) == IF s # <<>> /\ Head(s) = " " THEN LStrip(Tail(s)) ELSE s

RECURSIVE RStrip(_)
RStrip(s) ==
    IF s # <<>> /\ s[Len(s)] = " " THEN RStrip(SubSeq(s, 1, Len(s) - 1)) ELSE s

(* Variant: only the leading blanks are removed. *)
Strip_Leading(s) == LStrip(s)

Strip(s) == RStrip(LStrip(s))

(* Variant: the percentage is cut down to the multiple of 5 below it. *)
Round5_Floor(x) == (x \div 5) * 5

(* round(x/5)*5 for an integer percentage: x/5 is never a tie. *)
Round5(x) == ((x + 2) \div 5) * 5

(***************************************************************************)
(* Action plans.  A plan is the dict the planner returns; the fields a     *)
(* kind does not use hold a default.  analysis is the advisory text.       *)
(***************************************************************************)
Plan(kind, x, y, text, dir, complete, analysis) ==
    [action |-> kind, x_percent |-> x, y_percent |-> y, text |-> text,
     direction |-> dir, is_task_complete |-> complete, analysis |-> analysis]

NoAction == Plan("none", 0, 0, <<>>, "", FALSE, "")

Tap(x, y, c) == Plan("tap", x, y, <<>>, "", c, "planner")

Type(t, c) == Plan("type", 0, 0, t, "", c, "planner")

Scroll(d, c) == Plan("scroll", 0, 0, <<>>, d, c, "planner")

Wait(c) == Plan("wait", 0, 0, <<>>, "", c, "planner")

Other(kind, c) == Plan(kind, 0, 0, <<>>, "", c, "planner")

(* The plans determine_action may return in this model. *)
PlannerActions ==
    UNION {{Tap(50, 50, c), Tap(52, 48, c), Type(<<"a">>, c),
            Type(<<"A", " ">>, c), Scroll("down", c), Wait(c),
            Other("home", c)} : c \in BOOLEAN}

NoKey == [kind |-> "none", x |-> 0, y |-> 0, text |-> <<>>, direction |-> ""]

_get_action_key(action) ==
    LET action_type == action.action IN
    IF action_type = "tap"
    THEN [NoKey EXCEPT !.kind = "tap", !.x = Round5(action.x_percent),
                       !.y = Round5(action.y_percent)]
    ELSE IF action_type = "type"
    THEN [NoKey EXCEPT !.kind = "type", !.text = Strip(LowerText(action.text))]
    ELSE IF action_type = "scroll"
    THEN [NoKey EXCEPT !.kind = "scroll", !.direction = action.direction]
    ELSE IF action_type = "wait"
    THEN [NoKey EXCEPT !.kind = "wait"]
    ELSE [NoKey EXCEPT !.kind = action_type]

(***************************************************************************)
(* Tasks are lower-cased word sequences (run_task works on task.lower()).  *)
(***************************************************************************)
Tasks ==
    {<<"open", "maps">>, <<"search">>, <<"search", "for", "pizza">>}

(* What analyze_task may answer; its failure fallback is the first record. *)
TaskAnalyses ==
    {[requires_app_launch |-> r, app_name |-> n] :
        r \in BOOLEAN, n \in {"", "maps"}}

NoTaskAnalysis == [requires_app_launch |-> FALSE, app_name |-> "none"]

HasSearch(t) == \E i \in 1..Len(t) : t[i] = "search"

(* task.lower().split("search")[1].strip() *)
AfterSearch(t) ==
    LET i == CHOOSE k \in 1..Len(t) :
                 t[k] = "search" /\ \A j \in 1..(k - 1) : t[j] # "search"
        later == {k \in (i + 1)..Len(t) : t[k] = "search"}
        j == IF later = {} THEN Len(t) + 1
             ELSE CHOOSE k \in later : \A m \in later : k <= m
    IN SubSeq(t, i + 1, j - 1)

(* if search_term.startswith(word + " "): search_term = search_term[len(word):].strip() *)
StripFiller(term, word) ==
    IF Len(term) > 1 /\ Head(term) = word THEN Tail(term) ELSE term

SearchTerm(t) ==
    StripFiller(StripFiller(StripFiller(StripFiller(AfterSearch(t), "for"),
                                        "about"), "the"), "a")

VARIABLES
    sa_pc,              \* position of SimpleAndroidAgent.run_task
    task,               \* the task given to run_task
    is_search_task,
    search_term,
    search_dispatch,    \* the actions search_text passed to execute_action
    steps_taken,
    task_complete,
    result,
    recent_actions,     \* self.recent_actions
    same_action_count,  \* self.same_action_count
    proposed,           \* what determine_action returned in this iteration
    action,             \* the local `action` (the substitute, if one was made)
    executed,           \* the plan passed to execute_action in this iteration
    prev_executed,      \* the plan passed to execute_action one iteration before
    success,            \* what execute_action returned
    sa_ret,             \* the value run_task returned
    prev_key,           \* observer: the key of the preceding proposal
    streak,             \* observer: consecutive proposals with that key
    capture_failures,   \* observer: consecutive failed captures
    screen_shows_query, \* the screen captured last shows the search term
    task_analysis,      \* analyze_task's answer, until the loop is entered
    launch_result       \* launch_app's outcome, until the loop is entered

sa_vars ==
    <<sa_pc, task, is_search_task, search_term, search_dispatch, steps_taken,
      task_complete, result, recent_actions, same_action_count, proposed,
      action, executed, prev_executed, success, sa_ret, prev_key, streak,
      capture_failures, screen_shows_query,
                   task_analysis, launch_result>>

VARIABLES
    vs_pc,                  \* position of AndroidVisionAgent.run_task (vision)
    vs_stages,              \* task_stages still to run
    vs_run_results,         \* results of run_task
    vs_steps_taken,
    vs_consecutive_errors,
    vs_results,             \* results of run_vision_guided_stage (its entries)
    vs_last,                \* the entry appended last to results
    vs_analysis,            \* what analyze_screenshot_with_context returned
    vs_executed,            \* the analysis passed to execute_action in this step
    vs_ret,                 \* how run_task ended
    vs_fail_streak          \* observer: consecutive failed iterations

vs_vars ==
    <<vs_pc, vs_stages, vs_run_results, vs_steps_taken, vs_consecutive_errors,
      vs_results, vs_last, vs_analysis, vs_executed, vs_ret, vs_fail_streak>>

VARIABLES
    xa_pc,                  \* position of AndroidVisionAgent.run_task (XML)
    planning_cycles,
    total_steps_taken,
    xa_task_complete,
    xa_results,             \* results of run_task (its entries)
    xa_last,                \* the entry appended last to results
    multi_step_plan,        \* the plan of the current planning cycle
    step_count,             \* steps of the current plan taken so far
    xa_executed,            \* execute_ui_action calls of this run_task
    xa_ret,                 \* how run_task ended
    xa_fail_streak,         \* observer: consecutive failed planning cycles
    ui_hash,                \* compute_ui_hash of this cycle's hierarchy
    ui_hash_cache,          \* self.ui_hash_cache["h"], NoPlan when absent
    cache_from_earlier_run, \* observer: that entry was stored by an earlier run
    cached_for_this_task    \* observer: that entry was planned for the task
                            \* argument of the present run_task call

xa_vars ==
    <<xa_pc, planning_cycles, total_steps_taken, xa_task_complete, xa_results,
      xa_last, multi_step_plan, step_count, xa_executed, xa_ret,
      xa_fail_streak, ui_hash, ui_hash_cache, cache_from_earlier_run,
                   cached_for_this_task>>

VARIABLES
    fn_raw_x,               \* x_percent as the planner's JSON gave it
    fn_raw_y,               \* y_percent as the planner's JSON gave it
    fn_plan,                \* the plan determine_action returned for them
    fn_a,                   \* a plan given to _get_action_key
    fn_b,                   \* another plan given to _get_action_key
    fn_key_a,               \* _get_action_key(fn_a)
    fn_key_b,               \* _get_action_key(fn_b)
    fn_response,            \* what the planning LLM call gave determine_action
    fn_ui                   \* a call of execute_ui_action and what it did

fn_vars ==
    <<fn_raw_x, fn_raw_y, fn_plan, fn_a, fn_b, fn_key_a, fn_key_b,
      fn_response, fn_ui>>

VARIABLES
    is_agent,               \* the agent whose interactive_session runs
    is_pc,                  \* position of interactive_session
    scrcpy_process,         \* self.scrcpy_process: None or a Popen object
    spawned,                \* observer: a Popen object was stored
    terminate_calls,        \* observer: terminate() calls on that object
    stop_calls,             \* observer: calls of stop_scrcpy
    exit_path,              \* observer: how the session left its try block
    tasks_run               \* tasks given to run_task in the session

is_vars ==
    <<is_agent, is_pc, scrcpy_process, spawned, terminate_calls, stop_calls,
      exit_path, tasks_run>>

vars == <<sa_vars, vs_vars, xa_vars, fn_vars, is_vars>>

SA_Init ==
    /\ sa_pc = "idle"
    /\ task = <<>>
    /\ is_search_task = FALSE
    /\ search_term = <<>>
    /\ search_dispatch = <<>>
    /\ steps_taken = 0
    /\ task_complete = FALSE
    /\ result = ""
    /\ recent_actions = <<>>
    /\ same_action_count = 0
    /\ proposed = NoAction
    /\ action = NoAction
    /\ executed = NoAction
    /\ prev_executed = NoAction
    /\ success = TRUE
    /\ sa_ret = "none"
    /\ prev_key = NoKey
    /\ streak = 0
    /\ capture_failures = 0
    /\ screen_shows_query = FALSE
    /\ task_analysis = NoTaskAnalysis
    /\ launch_result = "not_called"

(* execute_action: adb_ok is whether the adb calls of the branch succeed;  *)
(* an exception is caught inside and turned into False.                    *)
execute_action(a, adb_ok) ==
    IF a.action \in {"tap", "type", "scroll"} THEN adb_ok
    ELSE IF a.action \in {"wait", "done"} THEN TRUE
    ELSE FALSE

(* Variant: search_text reports a failure after the three calls. *)
search_text_ReportsFailure(text) ==
    [ok |-> FALSE,
     dispatched |-> <<Plan("tap", 50, 10, <<>>, "", FALSE, ""),
                      Plan("type", 0, 0, text, "", FALSE, ""),
                      Plan("tap", 90, 90, <<>>, "", FALSE, "")>>]

(* Variant: a failed launch does not end run_task. *)
LaunchStops_Never(launch, launch_success) == FALSE

(* Lines 789-792: launch_app was called and returned False. *)
LaunchStops(launch, launch_success) == launch /\ ~launch_success

(* search_text: tap the field, type the text, tap the search button; the   *)
(* three execute_action results are discarded and True is returned.        *)
search_text(text) ==
    [ok |-> TRUE,
     dispatched |-> <<Plan("tap", 50, 10, <<>>, "", FALSE, ""),
                      Plan("type", 0, 0, text, "", FALSE, ""),
                      Plan("tap", 90, 90, <<>>, "", FALSE, "")>>]

(* Variant: the loop test forgets the completion flag. *)
SA_LoopHead_NoFlag(steps, complete) ==
    IF steps < max_steps THEN "capture" ELSE "cleanup"

(* while steps_taken < max_steps and not task_complete *)
SA_LoopHead(steps, complete) ==
    IF steps < max_steps /\ ~complete THEN "capture" ELSE "cleanup"

(* Lines 756-817: reset, search detection, app launch, search sequence. *)
SA_RunTask ==
    /\ UNCHANGED <<vs_vars, xa_vars, fn_vars, is_vars>>
    /\ sa_pc \in {"idle", "returned"}
    /\ \E t \in Tasks, ta \in TaskAnalyses, launch_success \in BOOLEAN :
        LET term == IF HasSearch(t) THEN SearchTerm(t) ELSE <<>>
            is_search == HasSearch(t) /\ term # <<>>
            launch == ta.requires_app_launch /\ ta.app_name # ""
            \* the two places that run the search sequence
            searches == is_search /\ (launch \/ ~ta.requires_app_launch)
            st == search_text(term)
        IN
        /\ task' = t
        /\ recent_actions' = <<>>
        /\ same_action_count' = 0
        /\ is_search_task' = is_search
        /\ search_term' = term
        /\ proposed' = NoAction
        /\ action' = NoAction
        /\ executed' = NoAction
        /\ prev_executed' = NoAction
        /\ success' = TRUE
        /\ prev_key' = NoKey
        /\ streak' = 0
        /\ capture_failures' = 0
        /\ steps_taken' = 0
        /\ task_complete' = FALSE
        /\ result' = ""
        /\ task_analysis' = ta
        /\ launch_result' = IF ~launch THEN "not_called"
                             ELSE IF launch_success THEN "ok" ELSE "failed"
        /\ IF LaunchStops(launch, launch_success)
           THEN /\ sa_pc' = "returned"
                /\ sa_ret' = "Failed to launch"
                /\ search_dispatch' = <<>>
                /\ screen_shows_query' = FALSE
           ELSE IF searches /\ st.ok
           THEN \* lines 801-805 and 813-817: the screen is captured and
                \* described, and the description is returned
                /\ sa_pc' = "returned"
                /\ sa_ret' = "Search complete"
                /\ search_dispatch' = st.dispatched
                /\ screen_shows_query' \in BOOLEAN
           ELSE /\ search_dispatch' = IF searches THEN st.dispatched ELSE <<>>
                /\ sa_ret' = "none"
                /\ sa_pc' = SA_LoopHead(0, FALSE)
                /\ screen_shows_query' = FALSE

(* Lines 829-832: capture_screen returns a path, or None on any failure.   *)
(* task_analysis and launch_app's result are not read inside the loop.     *)
SA_Capture ==
    /\ UNCHANGED <<vs_vars, xa_vars, fn_vars, is_vars>>
    /\ sa_pc = "capture"
    /\ task_analysis' = NoTaskAnalysis
    /\ launch_result' = "not_called"
    /\ \E screenshot_ok \in BOOLEAN :
        IF ~screenshot_ok
        THEN /\ sa_pc' = "returned"
             /\ sa_ret' = "Failed to capture screen"
             /\ capture_failures' = capture_failures + 1
             /\ UNCHANGED <<proposed, action, executed, screen_shows_query>>
        ELSE /\ sa_pc' = "plan"
             /\ screen_shows_query' \in
                    IF search_term # <<>> THEN BOOLEAN ELSE {FALSE}
             /\ capture_failures' = 0
             /\ proposed' = NoAction
             /\ action' = NoAction
             /\ executed' = NoAction
             /\ UNCHANGED sa_ret
    /\ UNCHANGED <<task, is_search_task, search_term, search_dispatch,
                   steps_taken, task_complete, result, recent_actions,
                   same_action_count, prev_executed, success, prev_key,
                   streak>>

(* Variant: a kind without a branch of its own is replaced by home. *)
BreakLoopSubstitute_HomeForOthers(a) ==
    IF a.action = "type"
    THEN Plan("tap", 90, 90, <<>>, "", FALSE, "break_typing")
    ELSE IF a.action = "tap"
    THEN Plan("scroll", 0, 0, <<>>, "down", FALSE, "break_tapping")
    ELSE Plan("home", 0, 0, <<>>, "", FALSE, "break_other")

(* Variant: the substitute carries the completion flag of the proposal. *)
BreakLoopSubstitute_KeepsFlag(a) ==
    IF a.action = "type"
    THEN Plan("tap", 90, 90, <<>>, "", a.is_task_complete, "break_typing")
    ELSE IF a.action = "tap"
    THEN Plan("scroll", 0, 0, <<>>, "down", a.is_task_complete,
              "break_tapping")
    ELSE a

(* Lines 864-884: the substitute for a repeated plan; a kind without a     *)
(* branch keeps the planner's plan.                                        *)
BreakLoopSubstitute(a) ==
    IF a.action = "type"
    THEN Plan("tap", 90, 90, <<>>, "", FALSE, "break_typing")
    ELSE IF a.action = "tap"
    THEN Plan("scroll", 0, 0, <<>>, "down", FALSE, "break_tapping")
    ELSE a

(* Lines 858-889: is the plan with key k a repetition of the last entry? *)
IsRepetition(recent, k) == recent # <<>> /\ k = recent[Len(recent)]

(* Variant: the counter is never reset when it reaches the threshold. *)
NextSameActionCount_NoReset(recent, count, k) ==
    IF recent # <<>> /\ k = recent[Len(recent)] THEN count + 1 ELSE 0

(* Lines 858-889: the counter after the repetition check. *)
NextSameActionCount(recent, count, k) ==
    IF IsRepetition(recent, k)
    THEN IF count + 1 >= RepetitionThreshold THEN 0 ELSE count + 1
    ELSE 0

(* Variant: the threshold is compared with the counter before the         *)
(* increment, so the substitute comes one repetition late.                 *)
ActionAfterCheck_Late(recent, count, a) ==
    IF IsRepetition(recent, _get_action_key(a)) /\ count >= RepetitionThreshold
    THEN BreakLoopSubstitute(a)
    ELSE a

(* Lines 858-884: the plan that goes on to execute_action. *)
ActionAfterCheck(recent, count, a) ==
    IF IsRepetition(recent, _get_action_key(a))
       /\ count + 1 >= RepetitionThreshold
    THEN BreakLoopSubstitute(a)
    ELSE a

(* Variant: the key is appended and nothing is ever evicted. *)
UpdateRecent_Unbounded(recent, k) == Append(recent, k)

(* Lines 891-894: append the key, keep the last HistoryLimit entries. *)
UpdateRecent(recent, k) ==
    LET r == Append(recent, k) IN
    IF Len(r) > HistoryLimit THEN Tail(r) ELSE r

(* Lines 836-894: analysis, determine_action, repetition check, history.   *)
(* determine_action turns its own failures into FallbackPlan.              *)
FallbackPlan == Plan("wait", 0, 0, <<>>, "", FALSE, "error")

(* Variant: the key appended to the history is the one of the plan that   *)
(* goes on to execute_action.                                              *)
SA_Plan_RecordsDispatched ==
    /\ UNCHANGED <<vs_vars, xa_vars, fn_vars, is_vars>>
    /\ sa_pc = "plan"
    /\ \E a \in PlannerActions \cup {FallbackPlan} :
        LET action_key == _get_action_key(a)
            dispatched == ActionAfterCheck(recent_actions, same_action_count, a)
        IN
        /\ proposed' = a
        /\ action' = dispatched
        /\ same_action_count' =
               NextSameActionCount(recent_actions, same_action_count, action_key)
        /\ recent_actions' =
               UpdateRecent(recent_actions, _get_action_key(dispatched))
        /\ prev_key' = action_key
        /\ streak' = IF action_key = prev_key THEN streak + 1 ELSE 1
    /\ sa_pc' = "execute"
    /\ UNCHANGED <<task, is_search_task, search_term, search_dispatch,
                   steps_taken, task_complete, result, executed,
                   prev_executed, success, sa_ret, capture_failures,
                   screen_shows_query,
                   task_analysis, launch_result>>

SA_Plan ==
    /\ UNCHANGED <<vs_vars, xa_vars, fn_vars, is_vars>>
    /\ sa_pc = "plan"
    /\ \E a \in PlannerActions \cup {FallbackPlan} :
        LET action_key == _get_action_key(a) IN
        /\ proposed' = a
        /\ action' = ActionAfterCheck(recent_actions, same_action_count, a)
        /\ same_action_count' =
               NextSameActionCount(recent_actions, same_action_count, action_key)
        /\ recent_actions' = UpdateRecent(recent_actions, action_key)
        /\ prev_key' = action_key
        /\ streak' = IF action_key = prev_key THEN streak + 1 ELSE 1
    /\ sa_pc' = "execute"
    /\ UNCHANGED <<task, is_search_task, search_term, search_dispatch,
                   steps_taken, task_complete, result, executed,
                   prev_executed, success, sa_ret, capture_failures,
                   screen_shows_query,
                   task_analysis, launch_result>>

(* Lines 902-911: the completion flag, the result and the step counter. *)
ResultAfterStep(res, a, steps) ==
    IF steps >= max_steps
    THEN "Task not completed within the maximum number of steps"
    ELSE IF a.is_task_complete THEN a.analysis ELSE res

(* Variant: the completion flag is read first and a plan that carries it  *)
(* is not passed to execute_action.                                        *)
SA_Execute_CheckFirst ==
    /\ UNCHANGED <<vs_vars, xa_vars, fn_vars, is_vars>>
    /\ sa_pc = "execute"
    /\ IF action.is_task_complete
       THEN UNCHANGED <<success, executed, prev_executed>>
       ELSE /\ \E adb_ok \in BOOLEAN : success' = execute_action(action, adb_ok)
            /\ executed' = action
            /\ prev_executed' = action
    /\ task_complete' = action.is_task_complete
    /\ steps_taken' = steps_taken + 1
    /\ result' = ResultAfterStep(result, action, steps_taken + 1)
    /\ sa_pc' = "settle"
    /\ UNCHANGED <<task, is_search_task, search_term, search_dispatch,
                   recent_actions, same_action_count, proposed, action, sa_ret,
                   prev_key, streak, capture_failures, screen_shows_query,
                   task_analysis, launch_result>>

(* Variant: the next iteration is started as soon as execute_action has    *)
(* returned, without the sleep of line 914.                                *)
SA_Execute_NoSettle ==
    /\ UNCHANGED <<vs_vars, xa_vars, fn_vars, is_vars>>
    /\ sa_pc = "execute"
    /\ \E adb_ok \in BOOLEAN : success' = execute_action(action, adb_ok)
    /\ executed' = action
    /\ prev_executed' = action
    /\ task_complete' = action.is_task_complete
    /\ steps_taken' = steps_taken + 1
    /\ result' = ResultAfterStep(result, action, steps_taken + 1)
    /\ sa_pc' = SA_LoopHead(steps_taken + 1, action.is_task_complete)
    /\ UNCHANGED <<task, is_search_task, search_term, search_dispatch,
                   recent_actions, same_action_count, proposed, action, sa_ret,
                   prev_key, streak, capture_failures, screen_shows_query,
                   task_analysis, launch_result>>

(* Lines 896-911: execute_action, then the completion check. *)
SA_Execute ==
    /\ UNCHANGED <<vs_vars, xa_vars, fn_vars, is_vars>>
    /\ sa_pc = "execute"
    /\ \E adb_ok \in BOOLEAN : success' = execute_action(action, adb_ok)
    /\ executed' = action
    /\ prev_executed' = action
    /\ task_complete' = action.is_task_complete
    /\ steps_taken' = steps_taken + 1
    /\ result' = ResultAfterStep(result, action, steps_taken + 1)
    /\ sa_pc' = "settle"
    /\ UNCHANGED <<task, is_search_task, search_term, search_dispatch,
                   recent_actions, same_action_count, proposed, action, sa_ret,
                   prev_key, streak, capture_failures, screen_shows_query,
                   task_analysis, launch_result>>

(* Variant: a failed execute_action ends the loop. *)
SA_Settle_StopOnFailure ==
    /\ UNCHANGED <<vs_vars, xa_vars, fn_vars, is_vars>>
    /\ sa_pc = "settle"
    /\ sa_pc' = IF success THEN SA_LoopHead(steps_taken, task_complete)
                ELSE "cleanup"
    /\ UNCHANGED <<task, is_search_task, search_term, search_dispatch,
                   steps_taken, task_complete, result, recent_actions,
                   same_action_count, proposed, action, executed,
                   prev_executed, success, sa_ret, prev_key, streak,
                   capture_failures, screen_shows_query,
                   task_analysis, launch_result>>

(* Line 914: the one-second sleep, then the loop test of line 826. *)
SA_Settle ==
    /\ UNCHANGED <<vs_vars, xa_vars, fn_vars, is_vars>>
    /\ sa_pc = "settle"
    /\ sa_pc' = SA_LoopHead(steps_taken, task_complete)
    /\ UNCHANGED <<task, is_search_task, search_term, search_dispatch,
                   steps_taken, task_complete, result, recent_actions,
                   same_action_count, proposed, action, executed,
                   prev_executed, success, sa_ret, prev_key, streak,
                   capture_failures, screen_shows_query,
                   task_analysis, launch_result>>

(* Lines 916-917: cleanup_old_screenshots and return result. *)
SA_Return ==
    /\ UNCHANGED <<vs_vars, xa_vars, fn_vars, is_vars>>
    /\ sa_pc = "cleanup"
    /\ sa_pc' = "returned"
    /\ sa_ret' = result
    /\ UNCHANGED <<task, is_search_task, search_term, search_dispatch,
                   steps_taken, task_complete, result, recent_actions,
                   same_action_count, proposed, action, executed,
                   prev_executed, success, prev_key, streak,
                   capture_failures, screen_shows_query,
                   task_analysis, launch_result>>

SA_Next ==
    \/ SA_RunTask
    \/ SA_Capture
    \/ SA_Plan
    \/ SA_Execute
    \/ SA_Settle
    \/ SA_Return


(***************************************************************************)
(* AndroidVisionAgent of simple_android_vision_agent.py: run_task builds   *)
(* the stages and run_vision_guided_stage runs the screenshot loop.        *)
(* results is kept as the set of its entries together with the entry       *)
(* appended last: "\n".join(results) and the membership of a message       *)
(* depend on nothing else.  The entry "None" is Python's None.             *)
(***************************************************************************)
vs_max_steps == 15

max_consecutive_errors == 3

VsPlan(kind, text, complete) ==
    [action |-> kind, text |-> text, is_task_complete |-> complete,
     is_dict |-> TRUE]

(* analyze_screenshot_with_context returned None *)
NoAnalysis == [VsPlan("none", <<>>, FALSE) EXCEPT !.is_dict = FALSE]

(* json.loads gave a value that is no dict: analysis.get raises *)
Malformed == [VsPlan("malformed", <<>>, FALSE) EXCEPT !.is_dict = FALSE]

VsAnswers ==
    UNION {{VsPlan("click", <<>>, c), VsPlan("input_text", <<"a">>, c),
            VsPlan("input_text", <<>>, c)} : c \in BOOLEAN}
    \cup {Malformed}

(* execute_action of the vision agent: the string it returns.  An          *)
(* input_text plan whose text is empty falls out of the if chain and the   *)
(* function returns None.                                                  *)
vs_execute_action(a, device_ok) ==
    IF a.action = "click"
    THEN IF device_ok THEN "Clicked" ELSE "Action failed"
    ELSE IF a.action = "input_text"
    THEN IF ~device_ok THEN "Action failed"
         ELSE IF a.text # <<>> THEN "Entered text" ELSE "None"
    ELSE "Unknown action"

(* while steps_taken < max_steps *)
VS_LoopHead(steps) == IF steps < vs_max_steps THEN "capture" ELSE "after"

(* Variant: the budget is taken to be spent one failure early. *)
TooManyErrors_Early(errors) == errors >= max_consecutive_errors - 1

(* consecutive_errors >= max_consecutive_errors *)
TooManyErrors(errors) == errors >= max_consecutive_errors

(* "\n".join(results) raises TypeError on an entry that is no string *)
JoinRaises(entries) == "None" \in entries

VS_Init ==
    /\ vs_pc = "idle"
    /\ vs_stages = <<>>
    /\ vs_run_results = <<>>
    /\ vs_steps_taken = 0
    /\ vs_consecutive_errors = 0
    /\ vs_results = {}
    /\ vs_last = ""
    /\ vs_analysis = NoAnalysis
    /\ vs_executed = NoAnalysis
    /\ vs_ret = "none"
    /\ vs_fail_streak = 0

(* Lines 679-731: plan_task and the stages built from its answer. *)
VS_RunTask ==
    /\ UNCHANGED <<sa_vars, xa_vars, fn_vars, is_vars>>
    /\ vs_pc \in {"idle", "returned", "raised"}
    /\ \E stages \in {<<"launch">>, <<"launch", "vision">>, <<"vision">>} :
        vs_stages' = stages
    /\ vs_run_results' = <<>>
    /\ vs_steps_taken' = 0
    /\ vs_consecutive_errors' = 0
    /\ vs_results' = {}
    /\ vs_last' = ""
    /\ vs_analysis' = NoAnalysis
    /\ vs_executed' = NoAnalysis
    /\ vs_ret' = "none"
    /\ vs_fail_streak' = 0
    /\ vs_pc' = "stage"

(* Lines 736-750: the direct launch; a failure is caught and not recorded. *)
VS_Launch ==
    /\ UNCHANGED <<sa_vars, xa_vars, fn_vars, is_vars>>
    /\ vs_pc = "stage"
    /\ vs_stages # <<>> /\ Head(vs_stages) = "launch"
    /\ \E app_start_ok \in BOOLEAN :
        vs_run_results' = IF app_start_ok
                          THEN Append(vs_run_results, "Launched")
                          ELSE vs_run_results
    /\ vs_stages' = Tail(vs_stages)
    /\ UNCHANGED <<vs_pc, vs_steps_taken, vs_consecutive_errors, vs_results,
                   vs_last, vs_analysis, vs_executed, vs_ret, vs_fail_streak>>

(* Lines 752-757 and 403-409: entering run_vision_guided_stage. *)
VS_StartVision ==
    /\ UNCHANGED <<sa_vars, xa_vars, fn_vars, is_vars>>
    /\ vs_pc = "stage"
    /\ vs_stages # <<>> /\ Head(vs_stages) = "vision"
    /\ vs_steps_taken' = 0
    /\ vs_results' = {}
    /\ vs_last' = ""
    /\ vs_consecutive_errors' = 0
    /\ vs_analysis' = NoAnalysis
    /\ vs_executed' = NoAnalysis
    /\ vs_pc' = VS_LoopHead(0)
    /\ vs_fail_streak' = 0
    /\ UNCHANGED <<vs_stages, vs_run_results, vs_ret>>

(* Line 766: return "\n".join(results) of run_task. *)
VS_Return ==
    /\ UNCHANGED <<sa_vars, xa_vars, fn_vars, is_vars>>
    /\ vs_pc = "stage"
    /\ vs_stages = <<>>
    /\ vs_pc' = "returned"
    /\ vs_ret' = "returned"
    /\ UNCHANGED <<vs_stages, vs_run_results, vs_steps_taken,
                   vs_consecutive_errors, vs_results, vs_last, vs_analysis,
                   vs_executed, vs_fail_streak>>

(* Variant: a failed step is counted but its message is not appended. *)
VS_Failure_Unrecorded(msg, abort_msg, steps) ==
    /\ vs_consecutive_errors' = vs_consecutive_errors + 1
    /\ vs_fail_streak' = vs_fail_streak + 1
    /\ IF vs_consecutive_errors + 1 >= max_consecutive_errors
       THEN /\ vs_results' = vs_results \cup {abort_msg}
            /\ vs_last' = abort_msg
            /\ vs_pc' = "after"
       ELSE /\ UNCHANGED <<vs_results, vs_last>>
            /\ vs_pc' = IF steps < vs_max_steps THEN "capture" ELSE "after"

(* A failed step: the message is appended, the counter incremented, and    *)
(* the loop is left with abort_msg once the counter reaches the budget.    *)
VS_Failure(msg, abort_msg, steps) ==
    /\ vs_consecutive_errors' = vs_consecutive_errors + 1
    /\ vs_fail_streak' = vs_fail_streak + 1
    /\ IF TooManyErrors(vs_consecutive_errors + 1)
       THEN /\ vs_results' = vs_results \cup {msg, abort_msg}
            /\ vs_last' = abort_msg
            /\ vs_pc' = "after"
       ELSE /\ vs_results' = vs_results \cup {msg}
            /\ vs_last' = msg
            /\ vs_pc' = VS_LoopHead(steps)

(* Lines 410-423: count the step and take the screenshot. *)
VS_Capture ==
    /\ UNCHANGED <<sa_vars, xa_vars, fn_vars, is_vars>>
    /\ vs_pc = "capture"
    /\ vs_steps_taken' = vs_steps_taken + 1
    /\ vs_analysis' = NoAnalysis
    /\ vs_executed' = NoAnalysis
    /\ \E screenshot_ok \in BOOLEAN :
        IF ~screenshot_ok
        THEN VS_Failure("Failed to take screenshot",
                        "Too many consecutive errors. Aborting task.",
                        vs_steps_taken + 1)
        ELSE /\ vs_pc' = "analyze"
             /\ UNCHANGED <<vs_consecutive_errors, vs_results, vs_last,
                            vs_fail_streak>>
    /\ UNCHANGED <<vs_stages, vs_run_results, vs_ret>>

(* Lines 425-441: analyze_screenshot_with_context, None on any failure. *)
VS_Analyze ==
    /\ UNCHANGED <<sa_vars, xa_vars, fn_vars, is_vars>>
    /\ vs_pc = "analyze"
    /\ \E a \in VsAnswers \cup {NoAnalysis} :
        /\ vs_analysis' = a
        /\ IF a = NoAnalysis
           THEN VS_Failure("Failed to analyze screenshot",
                           "Too many consecutive errors. Aborting task.",
                           vs_steps_taken)
           ELSE /\ vs_pc' = "execute"
                /\ UNCHANGED <<vs_consecutive_errors, vs_results, vs_last,
                               vs_fail_streak>>
    /\ UNCHANGED <<vs_stages, vs_run_results, vs_steps_taken, vs_executed,
                   vs_ret>>

(* Lines 443-455 and the handler of lines 460-468. *)
VS_Execute ==
    /\ UNCHANGED <<sa_vars, xa_vars, fn_vars, is_vars>>
    /\ vs_pc = "execute"
    /\ IF ~vs_analysis.is_dict
       THEN /\ VS_Failure("Error in vision step",
                          "Too many consecutive errors. Aborting this stage.",
                          vs_steps_taken)
            /\ UNCHANGED vs_executed
       ELSE /\ \E device_ok \in BOOLEAN :
                LET res == vs_execute_action(vs_analysis, device_ok) IN
                /\ vs_results' = vs_results \cup {res}
                /\ vs_last' = res
            /\ vs_executed' = vs_analysis
            /\ vs_consecutive_errors' = 0
            /\ vs_fail_streak' = 0
            /\ vs_pc' = IF vs_analysis.is_task_complete THEN "after" ELSE "wait"
    /\ UNCHANGED <<vs_stages, vs_run_results, vs_steps_taken, vs_analysis,
                   vs_ret>>

(* Line 458: wait_after_action, then the loop test of line 409. *)
VS_Wait ==
    /\ UNCHANGED <<sa_vars, xa_vars, fn_vars, is_vars>>
    /\ vs_pc = "wait"
    /\ vs_pc' = VS_LoopHead(vs_steps_taken)
    /\ UNCHANGED <<vs_stages, vs_run_results, vs_steps_taken,
                   vs_consecutive_errors, vs_results, vs_last, vs_analysis,
                   vs_executed, vs_ret, vs_fail_streak>>

(* Lines 470-471: the entries of results when the loop has been left. *)
StageResults(entries, steps) ==
    IF steps >= vs_max_steps
    THEN entries \cup {"Maximum steps reached, task may be incomplete"}
    ELSE entries

(* Lines 470-473 and 757-764: the stage returns its joined results to      *)
(* run_task, or the join raises and nothing catches the TypeError.         *)
VS_After ==
    /\ UNCHANGED <<sa_vars, xa_vars, fn_vars, is_vars>>
    /\ vs_pc = "after"
    /\ vs_results' = StageResults(vs_results, vs_steps_taken)
    /\ IF JoinRaises(StageResults(vs_results, vs_steps_taken))
       THEN /\ vs_pc' = "raised"
            /\ vs_ret' = "raised"
            /\ UNCHANGED <<vs_stages, vs_run_results>>
       ELSE /\ vs_pc' = "stage"
            /\ vs_run_results' = Append(vs_run_results, "vision_result")
            /\ vs_stages' = Tail(vs_stages)
            /\ UNCHANGED vs_ret
    /\ UNCHANGED <<vs_steps_taken, vs_consecutive_errors, vs_last,
                   vs_analysis, vs_executed, vs_fail_streak>>

VS_Next ==
    \/ VS_RunTask
    \/ VS_Launch
    \/ VS_StartVision
    \/ VS_Return
    \/ VS_Capture
    \/ VS_Analyze
    \/ VS_Execute
    \/ VS_Wait
    \/ VS_After

(***************************************************************************)
(* AndroidVisionAgent of android_vision_agent.py: run_task plans several   *)
(* steps per planning cycle from the UI hierarchy.  results is kept as the *)
(* set of its entries and the entry appended last, as above.               *)
(***************************************************************************)
max_planning_cycles == 5

max_total_steps == 20

MultiStepPlan(steps, complete, verify) ==
    [steps |-> steps, is_task_complete |-> complete,
     requires_verification_after |-> verify, is_plan |-> TRUE]

(* compute_ui_hash of a hierarchy: "h" is one screen that can come back,   *)
(* "other" any screen that is seen once.                                   *)
UiHashes == {"h", "other"}

(* analyze_ui_with_multi_step_planning returned None *)
NoPlan == [MultiStepPlan(<<>>, FALSE, TRUE) EXCEPT !.is_plan = FALSE]

Clicks(n) == [i \in 1..n |-> "click_element"]

(* The step lists a plan may hold; a "malformed" step is one whose target  *)
(* is no dict, so that execute_ui_action raises before its try block.      *)
PlanSteps ==
    {<<>>, Clicks(1), <<"click_element", "malformed">>, <<"swipe">>,
     Clicks(6), Clicks(22)}

XaPlans ==
    {MultiStepPlan(st, c, v) : st \in PlanSteps, c \in BOOLEAN, v \in BOOLEAN}

(* The plans the LLM may give for the screen with hash "h". *)
PlansForH == {MultiStepPlan(Clicks(1), c, TRUE) : c \in BOOLEAN}

(* execute_ui_action: the string it returns for a well-formed step. *)
execute_ui_action(step, device_ok) ==
    IF step = "click_element"
    THEN IF device_ok THEN "Clicked element" ELSE "Action failed"
    ELSE "Unknown action type"

(* Variant: the loop test does not look at the planning cycles. *)
XA_LoopHead_NoCycleLimit(cycles, total, complete) ==
    IF total < max_total_steps /\ ~complete THEN "hierarchy" ELSE "after"

(* while planning_cycles < max_planning_cycles and                         *)
(*       total_steps_taken < max_total_steps and not task_complete         *)
XA_LoopHead(cycles, total, complete) ==
    IF cycles < max_planning_cycles /\ total < max_total_steps /\ ~complete
    THEN "hierarchy"
    ELSE "after"

XA_Init ==
    /\ xa_pc = "idle"
    /\ planning_cycles = 0
    /\ total_steps_taken = 0
    /\ xa_task_complete = FALSE
    /\ xa_results = {}
    /\ xa_last = ""
    /\ multi_step_plan = NoPlan
    /\ step_count = 0
    /\ xa_executed = 0
    /\ xa_ret = "none"
    /\ xa_fail_streak = 0
    /\ ui_hash = "other"
    /\ ui_hash_cache = NoPlan
    /\ cache_from_earlier_run = FALSE
    /\ cached_for_this_task = FALSE

(* Lines 689-757: the direct launch attempts and the loop's locals. *)
XA_RunTask ==
    /\ UNCHANGED <<sa_vars, vs_vars, fn_vars, is_vars>>
    /\ xa_pc \in {"idle", "returned"}
    /\ \E direct_launch_success \in BOOLEAN :
        /\ xa_results' = IF direct_launch_success THEN {"Launched app"} ELSE {}
        /\ xa_last' = IF direct_launch_success THEN "Launched app" ELSE ""
    /\ planning_cycles' = 0
    /\ total_steps_taken' = 0
    /\ xa_task_complete' = FALSE
    /\ multi_step_plan' = NoPlan
    /\ step_count' = 0
    /\ xa_executed' = 0
    /\ xa_ret' = "none"
    /\ xa_fail_streak' = 0
    /\ xa_pc' = XA_LoopHead(0, 0, FALSE)
    \* lines 693-695 reset action_count and last_action_time only
    /\ ui_hash' = "other"
    /\ UNCHANGED ui_hash_cache
    /\ cache_from_earlier_run' = (ui_hash_cache # NoPlan)
    \* the task argument is the one the cached plan was planned for, or
    \* another one
    /\ \E task_is_cached_one \in BOOLEAN :
        cached_for_this_task' = (ui_hash_cache # NoPlan /\ task_is_cached_one)

(* Lines 760-770: a new planning cycle; no hierarchy ends the loop. *)
XA_GetHierarchy ==
    /\ UNCHANGED <<sa_vars, vs_vars, fn_vars, is_vars>>
    /\ xa_pc = "hierarchy"
    /\ planning_cycles' = planning_cycles + 1
    /\ \E xml_ok \in BOOLEAN :
        IF ~xml_ok
        THEN /\ xa_results' = xa_results \cup {"Failed to get UI hierarchy"}
             /\ xa_last' = "Failed to get UI hierarchy"
             /\ xa_fail_streak' = xa_fail_streak + 1
             /\ xa_pc' = "after"
             /\ UNCHANGED ui_hash
        ELSE /\ xa_pc' = "analyze"
             /\ ui_hash' \in UiHashes
             /\ UNCHANGED <<xa_results, xa_last, xa_fail_streak>>
    /\ UNCHANGED <<total_steps_taken, xa_task_complete, multi_step_plan,
                   step_count, xa_executed, xa_ret, ui_hash_cache,
                   cache_from_earlier_run,
                   cached_for_this_task>>

(* Lines 374-380 and 503-506 of analyze_ui_with_multi_step_planning: the   *)
(* plans it can return for the hierarchy of this cycle.  A plan cached for *)
(* the hash is returned without asking the LLM; otherwise the LLM's answer *)
(* (None when the call or the parsing fails) is returned.                  *)
PlansFor(hash, cache) ==
    IF hash = "h"
    THEN IF cache.is_plan THEN {cache} ELSE PlansForH \cup {NoPlan}
    ELSE XaPlans \cup {NoPlan}

(* Lines 503-506: a plan obtained from the LLM is stored under the hash. *)
CacheAfter(hash, cache, p) ==
    IF hash = "h" /\ p.is_plan THEN p ELSE cache

(* Lines 772-782: the multi-step plan; no plan ends the loop. *)
XA_Analyze ==
    /\ UNCHANGED <<sa_vars, vs_vars, fn_vars, is_vars>>
    /\ xa_pc = "analyze"
    /\ \E p \in PlansFor(ui_hash, ui_hash_cache) :
        /\ multi_step_plan' = p
        /\ ui_hash_cache' = CacheAfter(ui_hash, ui_hash_cache, p)
        /\ cached_for_this_task' =
               IF CacheAfter(ui_hash, ui_hash_cache, p) # ui_hash_cache
               THEN TRUE ELSE cached_for_this_task
        /\ IF ~p.is_plan
           THEN /\ xa_results' = xa_results \cup {"Failed to analyze UI"}
                /\ xa_last' = "Failed to analyze UI"
                /\ xa_fail_streak' = xa_fail_streak + 1
                /\ xa_pc' = "after"
           ELSE /\ xa_pc' = IF p.steps = <<>> THEN "endplan" ELSE "step"
                /\ UNCHANGED <<xa_results, xa_last, xa_fail_streak>>
    /\ step_count' = 0
    /\ UNCHANGED <<planning_cycles, total_steps_taken, xa_task_complete,
                   xa_executed, xa_ret, ui_hash, cache_from_earlier_run>>

(* Lines 783-804 and the handler of lines 822-826: one step of the plan. *)
XA_Step ==
    /\ UNCHANGED <<sa_vars, vs_vars, fn_vars, is_vars>>
    /\ xa_pc = "step"
    /\ step_count' = step_count + 1
    /\ total_steps_taken' = total_steps_taken + 1
    /\ LET step == multi_step_plan.steps[step_count + 1] IN
       IF total_steps_taken + 1 > max_total_steps
       THEN /\ xa_pc' = "endplan"
            /\ UNCHANGED <<xa_results, xa_last, xa_executed, xa_fail_streak>>
       ELSE IF step = "malformed"
       THEN /\ xa_results' = xa_results \cup {"Error in planning cycle"}
            /\ xa_last' = "Error in planning cycle"
            /\ xa_fail_streak' = xa_fail_streak + 1
            /\ xa_executed' = xa_executed + 1
            /\ xa_pc' = "after"
       ELSE /\ \E device_ok \in BOOLEAN :
                LET res == execute_ui_action(step, device_ok) IN
                /\ xa_results' = xa_results \cup {res}
                /\ xa_last' = res
            /\ xa_executed' = xa_executed + 1
            /\ xa_fail_streak' = xa_fail_streak
            /\ xa_pc' = IF step_count + 1 = Len(multi_step_plan.steps)
                        THEN "endplan" ELSE "step"
    /\ UNCHANGED <<planning_cycles, xa_task_complete, multi_step_plan, xa_ret,
                   ui_hash, ui_hash_cache, cache_from_earlier_run,
                   cached_for_this_task>>

(* Lines 806-820: the completion flag of the plan, then the loop test. *)
XA_EndPlan ==
    /\ UNCHANGED <<sa_vars, vs_vars, fn_vars, is_vars>>
    /\ xa_pc = "endplan"
    /\ xa_task_complete' = multi_step_plan.is_task_complete
    /\ xa_pc' = IF multi_step_plan.is_task_complete
                THEN "after"
                ELSE XA_LoopHead(planning_cycles, total_steps_taken, FALSE)
    /\ xa_fail_streak' = 0
    /\ UNCHANGED <<planning_cycles, total_steps_taken, xa_results, xa_last,
                   multi_step_plan, step_count, xa_executed, xa_ret, ui_hash,
                   ui_hash_cache, cache_from_earlier_run,
                   cached_for_this_task>>

(* Lines 828-829: the entries of results when the loop has been left. *)
XaFinalResults(entries, total) ==
    IF total >= max_total_steps
    THEN entries \cup {"Maximum steps reached, task may be incomplete"}
    ELSE entries

(* Lines 828-833: return "\n".join(results). *)
XA_After ==
    /\ UNCHANGED <<sa_vars, vs_vars, fn_vars, is_vars>>
    /\ xa_pc = "after"
    /\ xa_results' = XaFinalResults(xa_results, total_steps_taken)
    /\ xa_pc' = "returned"
    /\ xa_ret' = "returned"
    /\ UNCHANGED <<planning_cycles, total_steps_taken, xa_task_complete,
                   xa_last, multi_step_plan, step_count, xa_executed,
                   xa_fail_streak, ui_hash, ui_hash_cache,
                   cache_from_earlier_run,
                   cached_for_this_task>>

XA_Next ==
    \/ XA_RunTask
    \/ XA_GetHierarchy
    \/ XA_Analyze
    \/ XA_Step
    \/ XA_EndPlan
    \/ XA_After

(***************************************************************************)
(* The pure functions of SimpleAndroidAgent, applied to inputs drawn from  *)
(* bounded sets: the numeric normalisation at the end of determine_action  *)
(* and _get_action_key.                                                    *)
(***************************************************************************)
MinCoord == 44

MaxCoord == 56

MaxTextLen == 2

Alphabet == {"a", "A", "b", " "}

Texts == UNION {[1..n -> Alphabet] : n \in 0..MaxTextLen}

(* A JSON value of a coordinate: a number (or numeric string) float()      *)
(* accepts, or a value on which float() raises.                            *)
RawNumber(v) == [parses |-> TRUE, val |-> v]

Unparseable == [parses |-> FALSE, val |-> 0]

RawCoords == {RawNumber(v) : v \in {-10, 0, 50, 100, 150}} \cup {Unparseable}

(* Lines 1339-1345: float() of both fields, and 50 for both when either    *)
(* conversion raises.  No range check follows.                             *)
NormalizeTap(x, y, c) ==
    IF x.parses /\ y.parses THEN Tap(x.val, y.val, c) ELSE Tap(50, 50, c)

(* The plans _get_action_key is applied to. *)
KeyPlans ==
    {Tap(x, y, FALSE) : x \in MinCoord..MaxCoord, y \in {50, 53}}
    \cup {Type(t, FALSE) : t \in Texts}
    \cup {Plan(k, 0, 0, <<>>, d, FALSE, "planner") :
              k \in {"scroll", "swipe"}, d \in {"up", "down"}}
    \cup {Wait(FALSE)}

(* What the planning call gave: "error" when the call (or anything else in *)
(* the outer try block) raised, "json" when the text parsed to a dict,     *)
(* "text" when no JSON could be read from it.  For "text", mentions are    *)
(* the words among tap, type, scroll and down the text contains and        *)
(* says_done is whether it contains "complete" or "done".                  *)
Response(kind, plan, x, y, mentions, says_done) ==
    [kind |-> kind, plan |-> plan, x |-> x, y |-> y, mentions |-> mentions,
     says_done |-> says_done]

NoResponse == Response("none", NoAction, Unparseable, Unparseable, {}, FALSE)

Responses ==
    {Response("error", NoAction, Unparseable, Unparseable, {}, FALSE)}
    \cup {Response("json", Tap(0, 0, c), x, y, {}, FALSE) :
              c \in BOOLEAN, x \in RawCoords, y \in RawCoords}
    \cup {Response("json", a, Unparseable, Unparseable, {}, FALSE) :
              a \in {q \in PlannerActions : q.action # "tap"}}
    \cup {Response("text", NoAction, Unparseable, Unparseable, m, d) :
              m \in SUBSET {"tap", "type", "scroll", "down"}, d \in BOOLEAN}

(* Lines 1293-1336: the plan built from a text that holds no JSON.  The    *)
(* text to type is the first quoted part of the answer, here none.         *)
TextFallback(mentions, says_done) ==
    LET analysis == "Extracted from text response" IN
    IF "tap" \in mentions
    THEN Plan("tap", 50, 50, <<>>, "", says_done, analysis)
    ELSE IF "type" \in mentions
    THEN Plan("type", 0, 0, <<>>, "", says_done, analysis)
    ELSE IF "scroll" \in mentions
    THEN Plan("scroll", 0, 0, <<>>,
              IF "down" \in mentions THEN "down" ELSE "up", says_done, analysis)
    ELSE Plan("wait", 0, 0, <<>>, "", says_done, analysis)

(* Lines 1279-1363: from the planning call's answer to the returned plan. *)
determine_action(r) ==
    IF r.kind = "error" THEN FallbackPlan
    ELSE IF r.kind = "text" THEN TextFallback(r.mentions, r.says_done)
    ELSE IF r.plan.action = "tap"
    THEN NormalizeTap(r.x, r.y, r.plan.is_task_complete)
    ELSE r.plan

(***************************************************************************)
(* execute_ui_action of android_vision_agent.py with its repeat_count      *)
(* loop.  An action_data is the action type, whether the target names a    *)
(* method and a value, the scroll direction, for each iteration whether    *)
(* the selected element exists on the screen, and the iteration (0: none)  *)
(* on which the device call raises.                                        *)
(***************************************************************************)
MaxRepeat == 3

(* The values of repeat_count: negative, zero, and 1 to MaxRepeat. *)
RepeatCounts == {-1, 0} \cup (1..MaxRepeat)

ActionData(type, has_selector, direction, exists, raises_at, repeat_count) ==
    [type |-> type, has_selector |-> has_selector, direction |-> direction,
     exists |-> exists, raises_at |-> raises_at, repeat_count |-> repeat_count]

AlwaysThere == [i \in 1..MaxRepeat |-> TRUE]

ActionDatas ==
    UNION {
        {ActionData("click_element", s, "", e, r, n) :
            s \in BOOLEAN, e \in [1..MaxRepeat -> BOOLEAN], r \in 0..MaxRepeat}
        \cup {ActionData("scroll", TRUE, d, AlwaysThere, r, n) :
            d \in {"down", "left", "diagonal"}, r \in 0..MaxRepeat}
        \cup {ActionData("back", TRUE, "", AlwaysThere, r, n) :
            r \in 0..MaxRepeat}
        \cup {ActionData("wait", TRUE, "", AlwaysThere, 0, n),
              ActionData("fly", TRUE, "", AlwaysThere, 0, n)}
        : n \in RepeatCounts}

(* A call and its outcome: the string returned and the number of device    *)
(* operations (click, swipe, press, or the sleep of a wait) performed.     *)
UiCall(a, res, ops) == [action_data |-> a, result |-> res, ops |-> ops]

NoUiCall == UiCall(ActionData("none", FALSE, "", AlwaysThere, 0, 0), "", 0)

(* Lines 526-629: iteration i (from 0) of for i in range(repeat_count),    *)
(* with the operations done and the value of result so far; "unbound" is   *)
(* the local before its first assignment, whose read at line 631 raises    *)
(* UnboundLocalError into the handler of lines 633-636.                    *)
RECURSIVE RepeatLoop(_, _, _, _)
RepeatLoop(a, i, ops, res) ==
    IF i >= a.repeat_count
    THEN UiCall(a, IF res = "unbound" THEN "Action failed" ELSE res, ops)
    ELSE IF a.type = "click_element"
    THEN IF ~a.has_selector
         THEN UiCall(a, "Invalid click_element action", ops)
         ELSE IF a.raises_at = i + 1
         THEN UiCall(a, "Action failed", ops)
         ELSE IF a.exists[i + 1]
         THEN RepeatLoop(a, i + 1, ops + 1, "Clicked element")
         ELSE RepeatLoop(a, i + 1, ops, "Element not found")
    ELSE IF a.type = "scroll"
    THEN IF a.direction \notin {"down", "up", "left", "right"}
         THEN UiCall(a, "Invalid scroll direction", ops)
         ELSE IF a.raises_at = i + 1
         THEN UiCall(a, "Action failed", ops)
         ELSE RepeatLoop(a, i + 1, ops + 1, "Scrolled")
    ELSE IF a.type = "back"
    THEN IF a.raises_at = i + 1
         THEN UiCall(a, "Action failed", ops)
         ELSE RepeatLoop(a, i + 1, ops + 1, "Pressed back button")
    ELSE IF a.type = "wait"
    THEN RepeatLoop(a, i + 1, ops + 1, "Waited")
    ELSE UiCall(a, "Unknown action type", ops)

(* Variant: the body runs once before repeat_count is looked at. *)
execute_ui_action_repeated_AtLeastOnce(a) ==
    IF a.repeat_count >= 1 THEN RepeatLoop(a, 0, 0, "unbound")
    ELSE [RepeatLoop([a EXCEPT !.repeat_count = 1], 0, 0, "unbound")
             EXCEPT !.action_data = a]

(* Lines 513-636: execute_ui_action for a dict with a dict target. *)
execute_ui_action_repeated(a) == RepeatLoop(a, 0, 0, "unbound")

FN_Init ==
    /\ fn_raw_x = Unparseable
    /\ fn_raw_y = Unparseable
    /\ fn_plan = NoAction
    /\ fn_a = NoAction
    /\ fn_b = NoAction
    /\ fn_key_a = NoKey
    /\ fn_key_b = NoKey
    /\ fn_response = NoResponse
    /\ fn_ui = NoUiCall

(* No function is being applied. *)
FN_Idle == fn_plan = NoAction /\ fn_a = NoAction /\ fn_ui = NoUiCall

(* determine_action normalises a tap plan of the planner. *)
FN_Normalize ==
    /\ UNCHANGED <<sa_vars, vs_vars, xa_vars, is_vars>>
    /\ FN_Idle
    /\ \E x \in RawCoords, y \in RawCoords :
        /\ fn_raw_x' = x
        /\ fn_raw_y' = y
        /\ fn_plan' = NormalizeTap(x, y, FALSE)
    /\ UNCHANGED <<fn_a, fn_b, fn_key_a, fn_key_b, fn_response, fn_ui>>

(* _get_action_key is applied to two plans. *)
FN_Keys ==
    /\ UNCHANGED <<sa_vars, vs_vars, xa_vars, is_vars>>
    /\ FN_Idle
    /\ \E a \in KeyPlans, b \in KeyPlans :
        /\ fn_a' = a
        /\ fn_b' = b
        /\ fn_key_a' = _get_action_key(a)
        /\ fn_key_b' = _get_action_key(b)
    /\ UNCHANGED <<fn_raw_x, fn_raw_y, fn_plan, fn_response, fn_ui>>

(* determine_action turns the planning call's answer into a plan. *)
FN_Determine ==
    /\ UNCHANGED <<sa_vars, vs_vars, xa_vars, is_vars>>
    /\ FN_Idle
    /\ \E r \in Responses :
        /\ fn_response' = r
        /\ fn_plan' = determine_action(r)
    /\ UNCHANGED <<fn_raw_x, fn_raw_y, fn_a, fn_b, fn_key_a, fn_key_b, fn_ui>>

(* execute_ui_action is called with an action of a plan. *)
FN_ExecuteUi ==
    /\ UNCHANGED <<sa_vars, vs_vars, xa_vars, is_vars>>
    /\ FN_Idle
    /\ \E a \in ActionDatas : fn_ui' = execute_ui_action_repeated(a)
    /\ UNCHANGED <<fn_raw_x, fn_raw_y, fn_plan, fn_a, fn_b, fn_key_a,
                   fn_key_b, fn_response>>

(* The caller drops the values; the functions keep no state. *)
FN_Forget ==
    /\ UNCHANGED <<sa_vars, vs_vars, xa_vars, is_vars>>
    /\ ~FN_Idle
    /\ fn_raw_x' = Unparseable
    /\ fn_raw_y' = Unparseable
    /\ fn_plan' = NoAction
    /\ fn_a' = NoAction
    /\ fn_b' = NoAction
    /\ fn_key_a' = NoKey
    /\ fn_key_b' = NoKey
    /\ fn_response' = NoResponse
    /\ fn_ui' = NoUiCall

FN_Next ==
    FN_Normalize \/ FN_Keys \/ FN_Determine \/ FN_ExecuteUi \/ FN_Forget

(***************************************************************************)
(* interactive_session of the three agents and stop_scrcpy.                *)
(* scrcpy_process is "None", or a Popen object whose process is "running"  *)
(* or has "exited".  simple is SimpleAndroidAgent, vision and xml are the  *)
(* AndroidVisionAgent classes of simple_android_vision_agent.py and        *)
(* android_vision_agent.py.                                                *)
(***************************************************************************)
MaxSessionTasks == 2

MaxStopCalls == 3

Agents == {"simple", "vision", "xml"}

(* Variant: the process is terminated and the attribute keeps the object. *)
stop_scrcpy_KeepsObject(process) ==
    IF process # "None"
    THEN [process |-> process, terminated |-> 1]
    ELSE [process |-> process, terminated |-> 0]

(* stop_scrcpy: terminate the process and forget it, if there is one. *)
stop_scrcpy(process) ==
    IF process # "None"
    THEN [process |-> "None", terminated |-> 1]
    ELSE [process |-> process, terminated |-> 0]

IS_Init ==
    /\ is_agent = "simple"
    /\ is_pc = "idle"
    /\ scrcpy_process = "None"
    /\ spawned = FALSE
    /\ terminate_calls = 0
    /\ stop_calls = 0
    /\ exit_path = "none"
    /\ tasks_run = 0

(* main() builds an agent and awaits its interactive_session. *)
IS_Start ==
    /\ UNCHANGED <<sa_vars, vs_vars, xa_vars, fn_vars>>
    /\ is_pc = "idle"
    /\ \E a \in Agents :
        /\ is_agent' = a
        /\ is_pc' = IF a = "simple" THEN "start_scrcpy" ELSE "connect"
    /\ UNCHANGED <<scrcpy_process, spawned, terminate_calls, stop_calls,
                   exit_path, tasks_run>>

(* connect_device: the session returns when it fails. *)
IS_Connect ==
    /\ UNCHANGED <<sa_vars, vs_vars, xa_vars, fn_vars>>
    /\ is_pc = "connect"
    /\ \E connected \in BOOLEAN :
        IF connected
        THEN /\ is_pc' = IF is_agent = "vision" THEN "test_screenshot"
                         ELSE "start_scrcpy"
             /\ UNCHANGED exit_path
        ELSE /\ is_pc' = "finally"
             /\ exit_path' = "connection failed"
    /\ UNCHANGED <<is_agent, scrcpy_process, spawned, terminate_calls,
                   stop_calls, tasks_run>>

(* The test screenshot of the vision agent: the session returns when it    *)
(* fails or raises.                                                        *)
IS_TestScreenshot ==
    /\ UNCHANGED <<sa_vars, vs_vars, xa_vars, fn_vars>>
    /\ is_pc = "test_screenshot"
    /\ \E ok \in BOOLEAN :
        IF ok
        THEN is_pc' = "start_scrcpy" /\ UNCHANGED exit_path
        ELSE is_pc' = "finally" /\ exit_path' = "device test failed"
    /\ UNCHANGED <<is_agent, scrcpy_process, spawned, terminate_calls,
                   stop_calls, tasks_run>>

(* start_scrcpy: Popen raises, or the process is found running or exited   *)
(* two seconds later.  SimpleAndroidAgent ignores the result; the other    *)
(* two ask the user whether to go on without mirroring.                    *)
IS_StartScrcpy ==
    /\ UNCHANGED <<sa_vars, vs_vars, xa_vars, fn_vars>>
    /\ is_pc = "start_scrcpy"
    /\ \E outcome \in {"popen raised", "running", "exited"},
          go_on \in BOOLEAN :
        /\ scrcpy_process' = IF outcome = "popen raised" THEN scrcpy_process
                             ELSE outcome
        /\ spawned' = (outcome # "popen raised")
        /\ IF outcome = "running" \/ is_agent = "simple" \/ go_on
           THEN is_pc' = "prompt" /\ UNCHANGED exit_path
           ELSE is_pc' = "finally" /\ exit_path' = "declined"
    /\ UNCHANGED <<is_agent, terminate_calls, stop_calls, tasks_run>>

(* The prompt of the main loop: an exit command or a task. *)
IS_Prompt ==
    /\ UNCHANGED <<sa_vars, vs_vars, xa_vars, fn_vars>>
    /\ is_pc = "prompt"
    /\ \E user_input \in {"exit", "task"} :
        IF user_input = "exit"
        THEN is_pc' = "finally" /\ exit_path' = "exit command"
        ELSE /\ tasks_run < MaxSessionTasks
             /\ is_pc' = "run_task"
             /\ UNCHANGED exit_path
    /\ UNCHANGED <<is_agent, scrcpy_process, spawned, terminate_calls,
                   stop_calls, tasks_run>>

(* await self.run_task(...): it returns a result or raises. *)
IS_RunTask ==
    /\ UNCHANGED <<sa_vars, vs_vars, xa_vars, fn_vars>>
    /\ is_pc = "run_task"
    /\ tasks_run' = tasks_run + 1
    /\ \E raised \in BOOLEAN :
        IF raised
        THEN is_pc' = "finally" /\ exit_path' = "exception"
        ELSE is_pc' = "feedback" /\ UNCHANGED exit_path
    /\ UNCHANGED <<is_agent, scrcpy_process, spawned, terminate_calls,
                   stop_calls>>

(* The feedback question; either answer leads back to the prompt. *)
IS_Feedback ==
    /\ UNCHANGED <<sa_vars, vs_vars, xa_vars, fn_vars>>
    /\ is_pc = "feedback"
    /\ is_pc' = "prompt"
    /\ UNCHANGED <<is_agent, scrcpy_process, spawned, terminate_calls,
                   stop_calls, exit_path, tasks_run>>

(* Ctrl-C anywhere inside the try block; inside start_scrcpy it comes     *)
(* before Popen or during the sleep that follows it.                       *)
IS_KeyboardInterrupt ==
    /\ UNCHANGED <<sa_vars, vs_vars, xa_vars, fn_vars>>
    /\ is_pc \in {"connect", "test_screenshot", "start_scrcpy", "prompt",
                  "run_task", "feedback"}
    /\ is_pc' = "finally"
    /\ exit_path' = "KeyboardInterrupt"
    /\ \E after_popen \in BOOLEAN :
        IF is_pc = "start_scrcpy" /\ after_popen
        THEN scrcpy_process' = "running" /\ spawned' = TRUE
        ELSE UNCHANGED <<scrcpy_process, spawned>>
    /\ UNCHANGED <<is_agent, terminate_calls, stop_calls, tasks_run>>

(* The scrcpy process ends by itself (its window is closed). *)
IS_ScrcpyExits ==
    /\ UNCHANGED <<sa_vars, vs_vars, xa_vars, fn_vars>>
    /\ scrcpy_process = "running"
    /\ scrcpy_process' = "exited"
    /\ UNCHANGED <<is_agent, is_pc, spawned, terminate_calls, stop_calls,
                   exit_path, tasks_run>>

(* finally: self.stop_scrcpy() *)
IS_Finally ==
    /\ UNCHANGED <<sa_vars, vs_vars, xa_vars, fn_vars>>
    /\ is_pc = "finally"
    /\ scrcpy_process' = stop_scrcpy(scrcpy_process).process
    /\ terminate_calls' =
           terminate_calls + stop_scrcpy(scrcpy_process).terminated
    /\ stop_calls' = stop_calls + 1
    /\ is_pc' = "ended"
    /\ UNCHANGED <<is_agent, spawned, exit_path, tasks_run>>

(* stop_scrcpy is called once more on the agent after the session. *)
IS_StopAgain ==
    /\ UNCHANGED <<sa_vars, vs_vars, xa_vars, fn_vars>>
    /\ is_pc = "ended"
    /\ stop_calls < MaxStopCalls
    /\ scrcpy_process' = stop_scrcpy(scrcpy_process).process
    /\ terminate_calls' =
           terminate_calls + stop_scrcpy(scrcpy_process).terminated
    /\ stop_calls' = stop_calls + 1
    /\ UNCHANGED <<is_agent, is_pc, spawned, exit_path, tasks_run>>

IS_Next ==
    \/ IS_Start
    \/ IS_Connect
    \/ IS_TestScreenshot
    \/ IS_StartScrcpy
    \/ IS_Prompt
    \/ IS_RunTask
    \/ IS_Feedback
    \/ IS_KeyboardInterrupt
    \/ IS_ScrcpyExits
    \/ IS_Finally
    \/ IS_StopAgain

Init == SA_Init /\ VS_Init /\ XA_Init /\ FN_Init /\ IS_Init

SpecIS == Init /\ [][IS_Next]_vars

SpecFN == Init /\ [][FN_Next]_vars

SpecSA == Init /\ [][SA_Next]_vars

SpecVS == Init /\ [][VS_Next]_vars

SpecXA == Init /\ [][XA_Next]_vars

(***************************************************************************)
(* The three agents are three programs: a process runs one of them.  Spec  *)
(* lets any one agent run, and only that one.                              *)
(***************************************************************************)
SA_Alone == vs_pc = "idle" /\ xa_pc = "idle" /\ SA_Next

VS_Alone == sa_pc = "idle" /\ xa_pc = "idle" /\ VS_Next

XA_Alone == sa_pc = "idle" /\ vs_pc = "idle" /\ XA_Next

Next == SA_Alone \/ VS_Alone \/ XA_Alone

Spec == Init /\ [][Next]_vars

(***************************************************************************)
(* Properties of the task loops.                                           *)
(***************************************************************************)

(* C1: every task loop ends within its step budget (20 iterations of       *)
(* SimpleAndroidAgent.run_task, 15 of run_vision_guided_stage) and then    *)
(* returns a result, for every sequence of planner answers and failures.   *)
C1_LoopsReturnWithinBudget ==
    /\ steps_taken <= max_steps
    /\ vs_steps_taken <= vs_max_steps
    /\ sa_ret # "raised"
    /\ vs_ret # "raised"

(* C2, as stated: when the planner has proposed plans with equal keys on   *)
(* 3 consecutive iterations, the plan dispatched on the 3rd of them has a  *)
(* different kind from the proposed one, for every kind.                   *)
C2_SubstituteOnThirdProposal ==
    (sa_pc = "settle" /\ streak >= 3) => executed.action # proposed.action

(* C2, amended: a substitute of a different kind is dispatched exactly on  *)
(* the 4th, 7th, 10th, ... consecutive proposal with one key (the          *)
(* iterations on which same_action_count reaches 3) and only for the kinds *)
(* type and tap; on every other iteration the proposal itself goes out.    *)
C2_SubstituteWhenCountReachesThreshold ==
    sa_pc = "settle" =>
        IF proposed.action \in {"type", "tap"}
           /\ streak >= 4 /\ (streak - 1) % 3 = 0
        THEN /\ executed.action # proposed.action
             /\ executed.action = IF proposed.action = "type"
                                  THEN "tap" ELSE "scroll"
        ELSE executed = proposed

C2_Witness ==
    /\ sa_pc = "settle"
    /\ streak = 7
    /\ proposed.action = "type"
    /\ executed.action = "tap"

(* C3, as stated: in the repetition check the counter is incremented when  *)
(* the proposal's key equals the key of the plan executed one iteration    *)
(* before, reset to 0 when the keys differ, and reset to 0 on an iteration *)
(* where a substitute was made.                                            *)
C3_CounterAgainstExecuted ==
    [][(sa_pc = "plan" /\ sa_pc' = "execute") =>
        same_action_count' =
            IF action' # proposed' THEN 0
            ELSE IF prev_executed # NoAction
                    /\ _get_action_key(proposed') = _get_action_key(prev_executed)
            THEN same_action_count + 1
            ELSE 0]_vars

(* C3, amended: the counter is incremented when the proposal's key equals  *)
(* the key of the preceding proposal (the key recent_actions holds, also   *)
(* when a substitute was executed in its place), reset to 0 when the keys  *)
(* differ or there is no preceding proposal, and reset to 0 whenever the   *)
(* incremented value reaches 3, with or without a substitute.              *)
C3_CounterAgainstProposed ==
    [][(sa_pc = "plan" /\ sa_pc' = "execute") =>
        same_action_count' =
            IF streak >= 1 /\ _get_action_key(proposed') = prev_key
            THEN IF same_action_count + 1 >= 3 THEN 0
                 ELSE same_action_count + 1
            ELSE 0]_vars

C3_Witness ==
    /\ sa_pc = "execute"
    /\ streak = 5
    /\ same_action_count = 1
    /\ prev_executed.analysis = "break_typing"

(* C4: when the planner sets is_task_complete on iteration 1 of a task     *)
(* without the search indicator, run_task returns the plan's analysis and  *)
(* no second iteration is started; in the vision stage an executed plan    *)
(* that carries the flag is followed by no further capture or analysis.    *)
C4_CompleteOnFirstIteration ==
    /\ (/\ ~HasSearch(task)
         /\ steps_taken = 1
         /\ sa_pc # "execute"
         /\ proposed.is_task_complete)
        => /\ sa_pc \in {"settle", "cleanup", "returned"}
           /\ sa_pc = "returned" => sa_ret = proposed.analysis
    /\ vs_executed.is_task_complete =>
           vs_pc \notin {"capture", "analyze", "execute", "wait"}

C4_Witness ==
    /\ sa_pc = "returned"
    /\ task = <<"open", "maps">>
    /\ steps_taken = 1
    /\ proposed.is_task_complete
    /\ sa_ret = "planner"

(* C5, as stated: a plan whose is_task_complete is true is not passed to   *)
(* the executor; plans are dispatched only when the flag is false.         *)
C5_NoDispatchWhenComplete ==
    (sa_pc = "settle" /\ executed # NoAction) => ~executed.is_task_complete

(* C5, amended: every plan is passed to the executor whatever its flag;    *)
(* the flag is read after execute_action has returned, and a true flag     *)
(* ends the loop without a further iteration.  In the XML agent the steps  *)
(* of a plan are executed before its flag is read.                         *)
C5_DispatchThenComplete ==
    /\ sa_pc = "settle" =>
           /\ executed = action
           /\ executed # NoAction
           /\ task_complete = executed.is_task_complete
    /\ task_complete => sa_pc \in {"settle", "cleanup", "returned"}
    /\ xa_task_complete =>
           /\ xa_pc \in {"after", "returned"}
           /\ \/ step_count = Len(multi_step_plan.steps)
              \/ total_steps_taken > max_total_steps

C5_Witness ==
    /\ sa_pc = "settle"
    /\ task_complete
    /\ executed.action = "tap"
    /\ executed = proposed
    /\ success

VsFailures ==
    {"Failed to take screenshot", "Failed to analyze screenshot",
     "Error in vision step"}

VsAborts ==
    {"Too many consecutive errors. Aborting task.",
     "Too many consecutive errors. Aborting this stage."}

XaFailures ==
    {"Failed to get UI hierarchy", "Failed to analyze UI",
     "Error in planning cycle"}

(* C6, as stated: a capture failure ends the run only when captures have   *)
(* failed on 3 consecutive iterations.                                     *)
C6_CaptureAbortsOnlyAfterThree ==
    /\ sa_ret = "Failed to capture screen" => capture_failures >= 3
    /\ VsAborts \cap vs_results # {} => vs_fail_streak >= 3

(* C6, amended: in run_vision_guided_stage a failed capture is recorded    *)
(* and ends the stage only when it is the 3rd failed iteration in a row    *)
(* (capture failures, analysis failures and exceptions share the counter); *)
(* after 1 or 2 the loop goes on while steps remain, and an executed       *)
(* action restarts the count.  SimpleAndroidAgent.run_task has no such     *)
(* budget: its first failed capture returns "Failed to capture screen".    *)
C6_CaptureFailureBudget ==
    [][/\ (vs_pc = "capture" /\ vs_pc' # "analyze") =>
            /\ vs_consecutive_errors' = vs_fail_streak'
            /\ "Failed to take screenshot" \in vs_results'
            /\ IF vs_fail_streak' >= 3
               THEN vs_pc' = "after" /\ VsAborts \cap vs_results' # {}
               ELSE /\ vs_pc' = IF vs_steps_taken' < vs_max_steps
                                THEN "capture" ELSE "after"
                    /\ VsAborts \cap vs_results' = {}
       /\ (vs_pc = "execute" /\ vs_pc' \in {"wait", "after"}
           /\ vs_executed' # NoAnalysis) => vs_consecutive_errors' = 0
       /\ (sa_pc = "capture" /\ sa_pc' # "plan") =>
            /\ sa_pc' = "returned"
            /\ sa_ret' = "Failed to capture screen"
            /\ capture_failures' = 1]_vars

C6_Witness ==
    /\ vs_pc = "capture"
    /\ vs_last = "Failed to take screenshot"
    /\ vs_fail_streak = 2
    /\ vs_results = {"Failed to take screenshot"}

C8_RunTaskNeverRaises ==
    /\ sa_ret # "raised"
    /\ vs_ret # "raised"
    /\ xa_ret # "raised"

(* C9: when the planner marks the task complete on an iteration up to and  *)
(* including the last permitted one, the result is the completed one and   *)
(* does not carry the message of the exhausted outcome.                    *)
C9_CompletedIsNotExhausted ==
    /\ (sa_pc = "returned" /\ task_complete) =>
           sa_ret # "Task not completed within the maximum number of steps"
    /\ (vs_pc = "stage" /\ vs_executed.is_task_complete) =>
           "Maximum steps reached, task may be incomplete" \notin vs_results

(* C10: for a task whose text contains the search indicator, an iteration  *)
(* whose proposed plan is of kind type never completes the run.            *)
C10_TypeNeverCompletesSearch ==
    (HasSearch(task) /\ sa_pc = "settle" /\ proposed.action = "type") =>
        ~task_complete

(* C11: a run of a task with a search term is not reported complete (by    *)
(* the planner's flag or by the built-in search sequence) while the screen *)
(* observed last does not show the term.                                   *)
C11_NoCompletionWithoutQuery ==
    (/\ sa_pc = "returned"
     /\ search_term # <<>>
     /\ (sa_ret = "Search complete" \/ task_complete))
    => screen_shows_query

(* C12: every tap plan determine_action returns has, after the numeric     *)
(* normalisation, x_percent and y_percent within 0..100, whatever numbers  *)
(* the planner gave.                                                       *)
C12_TapWithinScreen ==
    fn_plan.action = "tap" =>
        /\ 0 <= fn_plan.x_percent /\ fn_plan.x_percent <= 100
        /\ 0 <= fn_plan.y_percent /\ fn_plan.y_percent <= 100

Band(v) == v \div 5

BothTaps == fn_a.action = "tap" /\ fn_b.action = "tap"

(* C13, as stated: two tap plans whose x_percent lie in one interval       *)
(* [k, k+4] and whose y_percent lie in one interval [k', k'+4], k and k'   *)
(* multiples of 5, have the same key.                                      *)
C13_SameBandSameKey ==
    (/\ BothTaps
     /\ Band(fn_a.x_percent) = Band(fn_b.x_percent)
     /\ Band(fn_a.y_percent) = Band(fn_b.y_percent))
    => fn_key_a = fn_key_b

NearMultiple(v, w) ==
    \E k \in {5 * i : i \in 0..20} :
        /\ k - 2 <= v /\ v <= k + 2
        /\ k - 2 <= w /\ w <= k + 2

(* C13, amended: two tap plans with whole-number percentages have the same *)
(* key exactly when their x_percent lie within 2 of one multiple of 5 and  *)
(* their y_percent lie within 2 of one multiple of 5 (the intervals        *)
(* [k-2, k+2], not [k, k+4]).                                              *)
C13_NearestMultipleSameKey ==
    BothTaps =>
        (fn_key_a = fn_key_b <=>
            /\ NearMultiple(fn_a.x_percent, fn_b.x_percent)
            /\ NearMultiple(fn_a.y_percent, fn_b.y_percent))

C13_Witness ==
    /\ BothTaps
    /\ fn_a.x_percent = 48 /\ fn_b.x_percent = 52
    /\ fn_a.y_percent = 50 /\ fn_b.y_percent = 50
    /\ fn_key_a = fn_key_b

(* C14: two scroll or swipe plans have equal keys exactly when they have   *)
(* the same kind and the same direction.                                   *)
C14_KeyIsKindAndDirection ==
    (fn_a.action \in {"scroll", "swipe"} /\ fn_b.action \in {"scroll", "swipe"})
    => (fn_key_a = fn_key_b <=>
            fn_a.action = fn_b.action /\ fn_a.direction = fn_b.direction)

(* s and t are one text up to letter case and leading / trailing blanks:   *)
(* each is a run of blanks, a core, and a run of blanks, and the two cores *)
(* agree letter by letter when case is ignored.                            *)
SameUpToCaseAndPadding(s, t) ==
    \E i \in 1..(Len(s) + 1), j \in 0..Len(s),
       m \in 1..(Len(t) + 1), n \in 0..Len(t) :
        /\ j - i = n - m
        /\ \A k \in 1..Len(s) : (k < i \/ k > j) => s[k] = " "
        /\ \A k \in 1..Len(t) : (k < m \/ k > n) => t[k] = " "
        /\ \A k \in 0..(j - i) : Lower(s[i + k]) = Lower(t[m + k])

C16_HistoryKeepsLastThree ==
    [][/\ Len(recent_actions') <= 3
       /\ (sa_pc = "plan" /\ sa_pc' = "execute") =>
            LET r == Append(recent_actions, prev_key') IN
            recent_actions' = IF Len(r) > 3 THEN SubSeq(r, Len(r) - 2, Len(r))
                              ELSE r]_vars

C16_Witness ==
    /\ sa_pc = "execute"
    /\ steps_taken = 3
    /\ Len(recent_actions) = 3
    /\ recent_actions[1].kind = "type"
    /\ recent_actions[2].kind = "scroll"
    /\ recent_actions[3].kind = "wait"

(* C17, as stated: the entry appended to recent_actions on an iteration is *)
(* the key of the plan dispatched on that iteration, the substitute when a *)
(* break-loop substitution was made.                                       *)
C17_HistoryRecordsDispatched ==
    [][(sa_pc = "plan" /\ sa_pc' = "execute") =>
        recent_actions'[Len(recent_actions')] = _get_action_key(action')]_vars

(* C17, amended: the entry appended on an iteration is the key of the      *)
(* planner's proposal, computed before the repetition check; when a        *)
(* substitute is dispatched the history holds the proposal's key and not   *)
(* the substitute's.                                                       *)
C17_HistoryRecordsProposal ==
    [][(sa_pc = "plan" /\ sa_pc' = "execute") =>
        /\ recent_actions'[Len(recent_actions')] = _get_action_key(proposed')
        /\ action' # proposed' =>
               recent_actions'[Len(recent_actions')] # _get_action_key(action')]_vars

C17_Witness ==
    /\ sa_pc = "execute"
    /\ proposed.action = "tap"
    /\ action.action = "scroll"
    /\ recent_actions[Len(recent_actions)] = _get_action_key(proposed)

(* C18: no loop state crosses task runs: every run_task starts with an     *)
(* empty history and with its counters at zero, and the plans dispatched   *)
(* in a run are the planner's answers of that run, whatever runs preceded  *)
(* it on the same agent object.                                            *)
C18_RunsAreIndependent ==
    /\ (sa_pc = "capture" /\ steps_taken = 0) =>
           recent_actions = <<>> /\ same_action_count = 0
    /\ (xa_pc = "hierarchy" /\ planning_cycles = 0) => total_steps_taken = 0
    /\ (xa_pc = "step" /\ ui_hash = "h") => ~cache_from_earlier_run

(* A step of the XML agent in which execute_ui_action returned a failure. *)
XaStepFailed ==
    /\ xa_pc = "step"
    /\ xa_executed' = xa_executed + 1
    /\ xa_last' = "Action failed"

(* C19, as stated: a failed execution never ends the loop by itself; it is *)
(* recorded and the controller goes on to the next iteration, which starts *)
(* with a fresh observation.                                               *)
C19_FailureThenFreshObservation ==
    [][/\ (sa_pc = "settle" /\ ~success /\ ~task_complete
           /\ steps_taken < max_steps) => sa_pc' = "capture"
       /\ (vs_pc = "wait" /\ vs_last = "Action failed"
           /\ vs_steps_taken < vs_max_steps) =>
              vs_pc' = "capture" /\ "Action failed" \in vs_results
       /\ XaStepFailed =>
              "Action failed" \in xa_results' /\ xa_pc' = "endplan"]_vars

(* C19, amended: a failed execution never ends the loop by itself.  In     *)
(* SimpleAndroidAgent.run_task and in run_vision_guided_stage the next     *)
(* iteration follows with a fresh capture (the vision stage records the    *)
(* "Action failed" result, SimpleAndroidAgent only prints).  In the XML    *)
(* agent the result is recorded and the next step of the same plan is      *)
(* executed without a new observation; the hierarchy is read again only    *)
(* when the plan's steps are used up.                                      *)
C19_FailureDoesNotEndLoop ==
    [][/\ (sa_pc = "settle" /\ ~success /\ ~task_complete
           /\ steps_taken < max_steps) => sa_pc' = "capture"
       /\ (vs_pc = "wait" /\ vs_last = "Action failed"
           /\ vs_steps_taken < vs_max_steps) =>
              vs_pc' = "capture" /\ "Action failed" \in vs_results
       /\ XaStepFailed =>
              /\ "Action failed" \in xa_results'
              /\ xa_pc' = IF step_count' < Len(multi_step_plan.steps)
                          THEN "step" ELSE "endplan"]_vars

C19_Witness ==
    /\ xa_pc = "step"
    /\ xa_last = "Action failed"
    /\ step_count = 1
    /\ Len(multi_step_plan.steps) = 6

(* C20: iterations are sequential: a capture is started only at the start  *)
(* of a run or after the preceding iteration's execute step has returned   *)
(* and the settle delay after it has elapsed; in the vision stage a step   *)
(* that executed an action is followed by wait_after_action, and in the    *)
(* XML agent the hierarchy is read only when no step of a plan is pending. *)
C20_IterationsAreSequential ==
    [][/\ sa_pc = "execute" => sa_pc' = "settle"
       /\ (sa_pc' = "capture" /\ sa_pc # "capture") =>
              \/ sa_pc = "settle"
              \/ sa_pc \in {"idle", "returned"} /\ steps_taken' = 0
       /\ (vs_pc = "execute" /\ vs_executed' # NoAnalysis
           /\ ~vs_executed'.is_task_complete) => vs_pc' = "wait"
       /\ (vs_pc' = "capture" /\ vs_pc # "capture"
           /\ vs_executed # NoAnalysis) => vs_pc = "wait"
       /\ (xa_pc' = "hierarchy" /\ xa_pc # "hierarchy") =>
              \/ xa_pc = "endplan"
              \/ xa_pc \in {"idle", "returned"} /\ planning_cycles' = 0]_vars

C20_Witness ==
    /\ sa_pc = "capture"
    /\ steps_taken = 2
    /\ executed.action = "tap"
    /\ success

(* C21: a planning failure gives the controller a plan and no exception:   *)
(* when the LLM call or the parsing of its answer fails, determine_action  *)
(* returns a plan of kind wait with is_task_complete false.                *)
C21_FailedPlanningGivesWait ==
    fn_response.kind \in {"error", "text"} =>
        fn_plan.action = "wait" /\ ~fn_plan.is_task_complete

(* The iteration is one on which the repetition branch of lines 860-887 is *)
(* taken: the 4th, 7th, 10th, ... consecutive proposal with one key.       *)
RepetitionDetected == streak >= 4 /\ (streak - 1) % 3 = 0

(* C22, as stated: the break-loop substitute is chosen by the repeated     *)
(* kind: a repeated tap is replaced by a scroll, a repeated scroll by a    *)
(* tap at the screen centre, any other repeated kind by home.              *)
C22_SubstituteTable ==
    (sa_pc = "execute" /\ RepetitionDetected) =>
        IF proposed.action = "tap" THEN action.action = "scroll"
        ELSE IF proposed.action = "scroll"
        THEN action.action = "tap" /\ action.x_percent = 50
             /\ action.y_percent = 50
        ELSE action.action = "home"

(* C22, amended: a repeated type is replaced by a tap at (90, 90), a       *)
(* repeated tap by a scroll down, and a repeated plan of any other kind    *)
(* (scroll, wait, home, ...) goes to execute_action as proposed.           *)
C22_SubstituteTableOfCode ==
    (sa_pc = "execute" /\ RepetitionDetected) =>
        IF proposed.action = "type"
        THEN action.action = "tap" /\ action.x_percent = 90
             /\ action.y_percent = 90
        ELSE IF proposed.action = "tap"
        THEN action.action = "scroll" /\ action.direction = "down"
        ELSE action = proposed

C22_Witness ==
    /\ sa_pc = "execute"
    /\ streak = 4
    /\ proposed.action = "scroll"
    /\ action = proposed
    /\ steps_taken = 3

(* C24: an iteration on which a substitute is made never completes the     *)
(* task, also when the proposal carried is_task_complete; a repeated plan  *)
(* of a kind without a substitute keeps the planner's flag.                *)
C24_SubstitutionNeverCompletes ==
    (sa_pc = "settle" /\ RepetitionDetected) =>
        IF proposed.action \in {"type", "tap"}
        THEN ~task_complete /\ ~executed.is_task_complete
        ELSE task_complete = proposed.is_task_complete

C24_Witness ==
    /\ sa_pc = "settle"
    /\ RepetitionDetected
    /\ proposed.action = "tap"
    /\ proposed.is_task_complete
    /\ executed.action = "scroll"
    /\ ~task_complete

(* C25: same_action_count stays in 0..2 for every planner sequence (it is  *)
(* the number of proposals since the last reset, modulo 3); while the      *)
(* planner repeats one type or tap plan, a substitute goes out on every    *)
(* 3rd iteration from the first substitution on and the proposal itself    *)
(* on every other iteration.                                               *)
C25_CounterBoundedSubstitutePeriodic ==
    /\ same_action_count \in 0..2
    /\ sa_pc \in {"execute", "settle"} =>
           /\ same_action_count = (streak - 1) % 3
           /\ proposed.action \in {"type", "tap"} =>
                  (action # proposed <=> RepetitionDetected)

C25_Witness ==
    /\ sa_pc = "settle"
    /\ streak = 10
    /\ proposed.action = "type"
    /\ executed.action = "tap"
    /\ same_action_count = 0
    /\ prev_executed # proposed

(* The three calls of search_text for the detected term. *)
SearchSequence ==
    <<Plan("tap", 50, 10, <<>>, "", FALSE, ""),
      Plan("type", 0, 0, search_term, "", FALSE, ""),
      Plan("tap", 90, 90, <<>>, "", FALSE, "")>>

(* C23: a task with a non-empty search term whose analysis requires no app *)
(* launch, or whose launch succeeded, runs tap(50,10), type(term),         *)
(* tap(90,90) and returns "Search complete" without entering the loop: no  *)
(* step is counted and the repetition history stays empty.                 *)
C23_SearchTaskBypassesLoop ==
    (/\ is_search_task
     /\ task_analysis # NoTaskAnalysis
     /\ ~task_analysis.requires_app_launch \/ launch_result = "ok") =>
        /\ sa_pc = "returned"
        /\ sa_ret = "Search complete"
        /\ search_dispatch = SearchSequence
        /\ steps_taken = 0
        /\ executed = NoAction
        /\ recent_actions = <<>>
        /\ same_action_count = 0

C23_Witness ==
    /\ is_search_task
    /\ search_term = <<"pizza">>
    /\ task_analysis.requires_app_launch
    /\ launch_result = "ok"
    /\ sa_ret = "Search complete"
    /\ Len(search_dispatch) = 3

(* C28: when the analysis requires an app launch and launch_app fails,     *)
(* run_task returns "Failed to launch <app>" before any tap, type or       *)
(* scroll is dispatched and before the loop is entered.                    *)
C28_FailedLaunchReturnsAtOnce ==
    launch_result = "failed" =>
        /\ task_analysis.requires_app_launch
        /\ sa_pc = "returned"
        /\ sa_ret = "Failed to launch"
        /\ search_dispatch = <<>>
        /\ executed = NoAction
        /\ steps_taken = 0

C28_Witness ==
    /\ launch_result = "failed"
    /\ is_search_task
    /\ sa_ret = "Failed to launch"
    /\ sa_pc = "returned"
    /\ search_dispatch = <<>>

(* C26: in the XML agent a plan returned from ui_hash_cache was planned    *)
(* for the task of the present run_task call: a plan cached while running  *)
(* one task is never returned and executed for a different task that       *)
(* reaches a UI state with the same hash.                                  *)
C26_CachedPlanIsForThisTask ==
    (xa_pc = "step" /\ ui_hash = "h" /\ multi_step_plan = ui_hash_cache) =>
        cached_for_this_task

(* C27: a run_task call of the XML agent runs at most 5 planning cycles    *)
(* and calls execute_ui_action at most 20 times, whatever the lengths of   *)
(* the plans; the first failure to get the UI hierarchy or a plan ends the *)
(* loop.                                                                   *)
C27_CyclesAndStepsBounded ==
    /\ planning_cycles <= max_planning_cycles
    /\ xa_executed <= max_total_steps
    /\ xa_last \in {"Failed to get UI hierarchy", "Failed to analyze UI"} =>
           xa_pc \in {"after", "returned"} /\ xa_fail_streak = 1

C27_Witness ==
    /\ xa_pc = "returned"
    /\ planning_cycles = max_planning_cycles
    /\ xa_executed = max_total_steps
    /\ total_steps_taken = max_total_steps + 1
    /\ Len(multi_step_plan.steps) = 22

(* The action is well-formed and the device does what it is asked on every *)
(* iteration: the element is on the screen and no device call raises.      *)
ValidUiAction(a) ==
    /\ a.type \in {"click_element", "scroll", "back", "wait"}
    /\ a.has_selector
    /\ a.type = "scroll" => a.direction \in {"down", "up", "left", "right"}
    /\ \A i \in 1..MaxRepeat : a.exists[i]
    /\ a.raises_at = 0

ExitPaths ==
    {"exit command", "connection failed", "device test failed", "declined",
     "KeyboardInterrupt", "exception"}

(* C30: on every exit path of interactive_session (exit command, failed    *)
(* device connection, user declining to continue, KeyboardInterrupt, an    *)
(* exception from run_task) stop_scrcpy has been called when the session   *)
(* has ended and scrcpy_process is None; a further stop_scrcpy call        *)
(* changes nothing: a process that was started is terminated once, never   *)
(* twice.                                                                  *)
C30_ScrcpyStoppedOnEveryExit ==
    /\ is_pc = "ended" =>
           /\ exit_path \in ExitPaths
           /\ stop_calls >= 1
           /\ scrcpy_process = "None"
           /\ terminate_calls = IF spawned THEN 1 ELSE 0
    /\ exit_path \in ExitPaths => is_pc \in {"finally", "ended"}
    /\ terminate_calls <= 1

C30_Witness ==
    /\ is_pc = "ended"
    /\ exit_path = "exception"
    /\ spawned
    /\ stop_calls = 2
    /\ terminate_calls = 1
    /\ scrcpy_process = "None"

====
